---- MODULE Spec2Model ----
(***************************************************************************)
(* Model of src/app.py, the Streamlit SAR generator: the tabular           *)
(* truncation helper (_limit_df) and the CSV extractor, the aggregator     *)
(* (get_all_input_text) with its per-format dispatch, the generation       *)
(* client (generate_sar_section) and the button handler that drives them.  *)
(*                                                                         *)
(* Three specifications share the variables:                               *)
(*   Spec       one session: widget edits, and button presses that run the *)
(*              handler phase by phase                                     *)
(*   SpecAgg    get_all_input_text applied to a bounded set of batches     *)
(*   SpecLimit  _limit_df / extract_text_from_csv applied to tables        *)
(***************************************************************************)
EXTENDS Integers, Sequences, FiniteSets, TLC

VARIABLES
    pc,                  \* position of the running script / of the function under test
    selected_option_str, \* st.selectbox value (NoneVal until a topic is chosen)
    uploaded_files,      \* st.file_uploader value, in upload order
    additional_context,  \* st.text_area value
    installed,           \* whether the Excel engines (openpyxl, xlrd) can be imported
    context_data,        \* text returned by get_all_input_text (sequence of tokens)
    files_ok,            \* flag returned by get_all_input_text
    messages,            \* st.error / st.warning diagnostics emitted, in order
    dispatched,          \* extractor chosen for each artifact, in order
    prompt,              \* prompt handed to generate_content
    generated_report,    \* value returned by generate_sar_section
    report_output,       \* st.session_state.report_output
    prior_output,        \* report_output as it was when the button was pressed
    gen_calls,           \* invocations of generate_sar_section in this request
    api_calls,           \* generate_content requests sent in this request
    in_flight,           \* generate_content requests not yet returned
    cause,               \* which st.error branch of the handler ended the request
    df,                  \* input table of _limit_df
    limited,             \* table returned by _limit_df
    csv_out              \* lines returned by extract_text_from_csv

vars == <<pc, selected_option_str, uploaded_files, additional_context, installed,
          context_data, files_ok, messages, dispatched, prompt, generated_report,
          report_output, prior_output, gen_calls, api_calls, in_flight, cause,
          df, limited, csv_out>>

(***************************************************************************)
(* Program constants and bounds                                            *)
(***************************************************************************)
MAX_ROWS == 300

MAX_COLS == 50

\* longest batch of artifacts
MaxFiles == 2

\* table sizes explored around each cap: cap - Slack .. cap + Slack
Slack == 3

\* a table well past the row cap
ManyRows == 400

\* a table well past the column cap
ManyCols == 60

(***************************************************************************)
(* Python values                                                           *)
(***************************************************************************)
NoneVal == "<None>"

\* truthiness of a str-or-None value
Truthy(s) == s # NoneVal /\ s # ""

\* a or b
PyOr(a, b) == IF Truthy(a) THEN a ELSE b

Min(a, b) == IF a < b THEN a ELSE b

(***************************************************************************)
(* Tables: a DataFrame is its row labels and its column labels, both in    *)
(* order; a cell is identified by its (row, column) pair.                  *)
(***************************************************************************)
MkDf(nrows, ncols) == [rows |-> [i \in 1..nrows |-> i], cols |-> [j \in 1..ncols |-> j]]

\* df.shape
Shape(d) == <<Len(d.rows), Len(d.cols)>>

\* df.head(n)
DfHead(d, n) == [d EXCEPT !.rows = SubSeq(d.rows, 1, Min(n, Len(d.rows)))]

\* df.iloc[:, :n]
DfLeadingCols(d, n) == [d EXCEPT !.cols = SubSeq(d.cols, 1, Min(n, Len(d.cols)))]

\* a plausible slip: the column cap is forgotten
limit_df_rows_only(d, max_rows, max_cols) ==
    IF Shape(d)[1] > max_rows THEN DfHead(d, max_rows) ELSE d

\* _limit_df
limit_df(d, max_rows, max_cols) ==
    LET d1 == IF Shape(d)[1] > max_rows THEN DfHead(d, max_rows) ELSE d
    IN  IF Shape(d1)[2] > max_cols THEN DfLeadingCols(d1, max_cols) ELSE d1

\* df.to_csv(index=False): the header line, then one line per row
ToCsv(d) ==
    <<[kind |-> "header", row |-> 0, cells |-> d.cols]>> \o
    [i \in 1..Len(d.rows) |-> [kind |-> "data", row |-> d.rows[i], cells |-> d.cols]]

\* the uploaded CSV file holding table d; a table without columns is the empty file
CsvFileOf(d) == IF Len(d.cols) = 0 THEN <<>> ELSE ToCsv(d)

\* pd.read_csv(file, dtype=str): the first line names the columns, the others are rows
ReadCsv(lines) ==
    [rows |-> [i \in 1..(Len(lines) - 1) |-> lines[i + 1].row], cols |-> lines[1].cells]

\* extract_text_from_csv: an empty file makes read_csv raise, which yields ""
extract_csv_lines(lines) ==
    IF lines = <<>> THEN <<>>
    ELSE ToCsv(limit_df(ReadCsv(lines), MAX_ROWS, MAX_COLS))

\* sizes explored: the edges of each cap, the trivial tables and one far past the cap
RowCounts == {0, 1, ManyRows} \cup ((MAX_ROWS - Slack)..(MAX_ROWS + Slack))

ColCounts == {0, 1, ManyCols} \cup ((MAX_COLS - Slack)..(MAX_COLS + Slack))

(***************************************************************************)
(* Uploaded artifacts: a name (stem and suffix), the media type the        *)
(* browser declared, and the bytes, described by their real format and by  *)
(* the text a matching parser gets out of them.                            *)
(***************************************************************************)
NoName == [stem |-> "", ext |-> ""]

M_PDF == "application/pdf"

M_DOCX == "application/vnd.openxmlformats-officedocument.wordprocessingml.document"

M_XLSX == "application/vnd.openxmlformats-officedocument.spreadsheetml.sheet"

M_XLS == "application/vnd.ms-excel"

M_CSV == "text/csv"

M_PPTX == "application/vnd.openxmlformats-officedocument.presentationml.presentation"

M_BIN == "application/octet-stream"

Mimes == {M_PDF, M_DOCX, M_XLSX, M_XLS, M_CSV, M_PPTX, M_BIN, NoneVal}

Suffixes == {".pdf", ".PDF", ".docx", ".xlsx", ".xlsm", ".xls", ".csv", ".pptx", ".txt"}

\* str.lower() on the suffixes and media types above
Lower(s) == IF s = ".PDF" THEN ".pdf" ELSE s

\* (x or "")
OrEmpty(s) == IF s = NoneVal THEN "" ELSE s

\* pat in mime, for the patterns the dispatch looks for
Contains(mime, pat) ==
    <<mime, pat>> \in {<<M_PDF, "pdf">>,
                       <<M_DOCX, "wordprocessingml">>,
                       <<M_XLSX, "officedocument.spreadsheetml">>,
                       <<M_CSV, "text/csv">>,
                       <<M_PPTX, "officedocument.presentationml.presentation">>}

\* the format a file with this suffix normally holds
NaturalFormat(ext) ==
    CASE Lower(ext) = ".pdf" -> "pdf"
      [] Lower(ext) = ".docx" -> "docx"
      [] Lower(ext) \in {".xlsx", ".xlsm"} -> "xlsx"
      [] Lower(ext) = ".xls" -> "xls"
      [] Lower(ext) = ".csv" -> "csv"
      [] Lower(ext) = ".pptx" -> "pptx"
      [] OTHER -> "txt"

MkFile(stem, ext, type, format, text) ==
    [name |-> [stem |-> stem, ext |-> ext], type |-> type,
     data |-> [format |-> format, text |-> text]]

\* representative artifacts for batches of several files: readable, corrupt and
\* textless ones, a CSV declared as Excel (as Windows browsers do), a workbook,
\* and a file of a kind the dispatch does not know
CoreFiles ==
    {MkFile("a", ".pdf", M_PDF, "pdf", "text of a"),
     MkFile("b", ".pdf", M_PDF, "corrupt", ""),
     MkFile("c", ".csv", M_XLS, "csv", "text of c"),
     MkFile("d", ".docx", M_BIN, "docx", "text of d"),
     MkFile("e", ".pdf", M_PDF, "pdf", ""),
     MkFile("f", ".txt", M_BIN, "txt", "text of f"),
     MkFile("g", ".xlsx", M_XLSX, "xlsx", "text of g")}

\* every suffix with every declared media type: holding its natural format with
\* text, holding it without text, or corrupt
AllFiles ==
    {MkFile("x", e, t, IF v = "corrupt" THEN "corrupt" ELSE NaturalFormat(e),
            IF v = "text" THEN "text of x" ELSE "") :
        e \in Suffixes, t \in Mimes, v \in {"text", "blank", "corrupt"}}

\* sequences over S of length at most n
RECURSIVE SeqsUpTo(_, _)
SeqsUpTo(S, n) ==
    IF n = 0 THEN {<<>>}
    ELSE LET shorter == SeqsUpTo(S, n - 1)
         IN  shorter \cup {Append(q, x) : q \in shorter, x \in S}

\* batches handed to get_all_input_text
Batches == SeqsUpTo(CoreFiles, MaxFiles) \cup {<<f>> : f \in AllFiles}

\* st.file_uploader(type=[...]) only lets these suffixes through
UploaderTypes == {".pdf", ".docx", ".xlsx", ".xlsm", ".xls", ".csv", ".pptx"}

\* the artifacts the file uploader accepts
Uploadable == {f \in CoreFiles : Lower(f.name.ext) \in UploaderTypes}

Notes == {"", "user notes"}

\* two of the 82 entries of SAR_ITEMS, as the selectbox renders them
Topics == {"1. I-1.1", "82. III-6"}

(***************************************************************************)
(* Text is a sequence of tokens; "" is the empty sequence and + is \o.     *)
(***************************************************************************)
Tok(tag, name, text) == [tag |-> tag, name |-> name, text |-> text]

Msg(level, key, name) == [level |-> level, key |-> key, name |-> name]

\* what a parser that understands the bytes returns
TextOf(file) ==
    IF file.data.text = "" THEN <<>> ELSE <<Tok("TEXT", NoName, file.data.text)>>

Extracted(text) == [text |-> text, msgs |-> <<>>]

\* a plausible slip: the error notice is written into the returned text
ReadErrorInText(key, file) ==
    [text |-> <<Tok("ERROR", file.name, key)>>, msgs |-> <<Msg("error", key, file.name)>>]

\* except Exception as e: st.error(f"Error reading ... {name}: {e}"); return ""
ReadError(key, file) == [text |-> <<>>, msgs |-> <<Msg("error", key, file.name)>>]

extract_text_from_pdf(file) ==
    IF file.data.format = "pdf" THEN Extracted(TextOf(file))
    ELSE ReadError("Error reading PDF file", file)

extract_text_from_docx(file) ==
    IF file.data.format = "docx" THEN Extracted(TextOf(file))
    ELSE ReadError("Error reading DOCX file", file)

\* read_csv parses any plain text; binary bytes make it raise
extract_text_from_csv(file) ==
    IF file.data.format \in {"csv", "txt"} THEN Extracted(TextOf(file))
    ELSE ReadError("Error reading CSV file", file)

\* the two messages of the except ImportError branch
ImportErrors == <<Msg("error", "missing Excel library", NoName),
                  Msg("exception", "ImportError", NoName)>>

\* the engine follows the suffix and is imported before the bytes are read;
\* without a known suffix pandas first sniffs the format from the bytes
extract_text_from_excel(file, inst) ==
    LET ext == Lower(file.name.ext)
        engine == IF ext \in {".xlsx", ".xlsm"} THEN "openpyxl"
                  ELSE IF ext = ".xls" THEN "xlrd" ELSE NoneVal
    IN  IF engine # NoneVal
        THEN IF ~inst THEN [text |-> <<>>, msgs |-> ImportErrors]
             ELSE IF (engine = "openpyxl" /\ file.data.format = "xlsx")
                     \/ (engine = "xlrd" /\ file.data.format = "xls")
                  THEN Extracted(TextOf(file))
                  ELSE ReadError("Error reading Excel file", file)
        ELSE IF file.data.format \notin {"xlsx", "xls"}
             THEN ReadError("Error reading Excel file", file)
             ELSE IF ~inst THEN [text |-> <<>>, msgs |-> ImportErrors]
                  ELSE Extracted(TextOf(file))

extract_text_from_pptx(file) ==
    IF file.data.format = "pptx" THEN Extracted(TextOf(file))
    ELSE ReadError("Error reading PPTX file", file)

\* the if/elif chain of get_all_input_text; name and mime are already lowered
Dispatch(name, mime) ==
    IF name.ext = ".pdf" \/ Contains(mime, "pdf") THEN "pdf"
    ELSE IF name.ext = ".docx" \/ Contains(mime, "wordprocessingml") THEN "docx"
    ELSE IF name.ext \in {".xlsx", ".xlsm"} \/ Contains(mime, "officedocument.spreadsheetml")
         THEN "excel"
    ELSE IF name.ext = ".xls" \/ mime = "application/vnd.ms-excel" THEN "excel"
    ELSE IF name.ext = ".csv" \/ Contains(mime, "text/csv") THEN "csv"
    ELSE IF name.ext = ".pptx" \/ Contains(mime, "officedocument.presentationml.presentation")
         THEN "pptx"
    ELSE "unsupported"

\* the extractor the chain picks for a file
ExtractorOf(file) ==
    Dispatch([file.name EXCEPT !.ext = Lower(@)], Lower(OrEmpty(file.type)))

\* the body of the try block for one file
RunExtractor(file, inst) ==
    CASE ExtractorOf(file) = "pdf" -> extract_text_from_pdf(file)
      [] ExtractorOf(file) = "docx" -> extract_text_from_docx(file)
      [] ExtractorOf(file) = "excel" -> extract_text_from_excel(file, inst)
      [] ExtractorOf(file) = "csv" -> extract_text_from_csv(file)
      [] ExtractorOf(file) = "pptx" -> extract_text_from_pptx(file)
      [] OTHER -> [text |-> <<>>,
                   msgs |-> <<Msg("warning", "Unsupported file type", file.name)>>]

\* a plausible slip: the END marker is written before the extracted text
FileBlockEndFirst(file, inst) ==
    <<Tok("START OF FILE", file.name, ""), Tok("END OF FILE", file.name, "")>>
    \o RunExtractor(file, inst).text

\* one iteration of the loop: START marker, extracted text, END marker
FileBlock(file, inst) ==
    <<Tok("START OF FILE", file.name, "")>> \o RunExtractor(file, inst).text
    \o <<Tok("END OF FILE", file.name, "")>>

NotesBlock(notes) ==
    <<Tok("START OF ADDITIONAL USER NOTES", NoName, ""), Tok("TEXT", NoName, notes),
      Tok("END OF ADDITIONAL USER NOTES", NoName, "")>>

\* the for loop over uploaded_files
RECURSIVE LoopFiles(_, _)
LoopFiles(files, inst) ==
    IF files = <<>> THEN [text |-> <<>>, msgs |-> <<>>, disp |-> <<>>]
    ELSE LET file == Head(files)
             rest == LoopFiles(Tail(files), inst)
         IN  [text |-> FileBlock(file, inst) \o rest.text,
              msgs |-> RunExtractor(file, inst).msgs \o rest.msgs,
              disp |-> <<ExtractorOf(file)>> \o rest.disp]

\* a plausible slip: a batch whose files all came out empty is reported as not ok
get_all_input_text_strict(files, notes, inst) ==
    LET loop == LoopFiles(files, inst)
        anyText == \E i \in 1..Len(loop.text) : loop.text[i].tag = "TEXT"
    IN  [text |-> IF anyText \/ Truthy(notes)
                  THEN loop.text \o (IF Truthy(notes) THEN NotesBlock(notes) ELSE <<>>)
                  ELSE <<>>,
         ok |-> anyText \/ Truthy(notes), msgs |-> loop.msgs, disp |-> loop.disp]

\* get_all_input_text
get_all_input_text(files, notes, inst) ==
    IF files = <<>> /\ ~Truthy(notes)
    THEN [text |-> <<>>, ok |-> FALSE, msgs |-> <<>>, disp |-> <<>>]
    ELSE LET loop == LoopFiles(files, inst)
         IN  [text |-> loop.text \o (IF Truthy(notes) THEN NotesBlock(notes) ELSE <<>>),
              ok |-> TRUE, msgs |-> loop.msgs, disp |-> loop.disp]

(***************************************************************************)
(* generate_sar_section and the script's state                             *)
(***************************************************************************)
KNOWLEDGE_BASE == "HA Standard 5th Edition; SPA Manuals; 3P Framework; SAR Structure"

NoPrompt == [sar_item |-> NoneVal, knowledge_base |-> "", context_data |-> <<>>]

\* prompt_tmpl.substitute(sar_item=..., knowledge_base=..., context_data=...)
BuildPrompt(sar_item, context) ==
    [sar_item |-> sar_item, knowledge_base |-> KNOWLEDGE_BASE, context_data |-> context]

\* what generate_content can answer: an exception, or a response object
Responses ==
    {[raised |-> TRUE, text |-> NoneVal, output_text |-> NoneVal]} \cup
    {[raised |-> FALSE, text |-> t, output_text |-> o] :
        t \in {NoneVal, "", "report A"}, o \in {NoneVal, "report B"}}

\* return getattr(resp, "text", None) or getattr(resp, "output_text", None);
\* except Exception: return None
ReturnOf(resp) == IF resp.raised THEN NoneVal ELSE PyOr(resp.text, resp.output_text)

\* the two st.error calls of the except branch of generate_sar_section
ApiErrors == <<Msg("error", "An error occurred while calling the Gemini API", NoName),
               Msg("error", "check the API key and the model name", NoName)>>

\* the values the handler's locals and the counters have when no run is active
LocalsCleared ==
    /\ context_data' = <<>>
    /\ files_ok' = FALSE
    /\ messages' = <<>>
    /\ dispatched' = <<>>
    /\ prompt' = NoPrompt
    /\ generated_report' = NoneVal
    /\ gen_calls' = 0
    /\ api_calls' = 0
    /\ in_flight' = 0
    /\ cause' = "none"

LocalsInit ==
    /\ context_data = <<>>
    /\ files_ok = FALSE
    /\ messages = <<>>
    /\ dispatched = <<>>
    /\ prompt = NoPrompt
    /\ generated_report = NoneVal
    /\ gen_calls = 0
    /\ api_calls = 0
    /\ in_flight = 0
    /\ cause = "none"

TablesInit ==
    /\ df = MkDf(0, 0)
    /\ limited = MkDf(0, 0)
    /\ csv_out = <<>>

widgets == <<selected_option_str, uploaded_files, additional_context>>

tables == <<df, limited, csv_out>>

(***************************************************************************)
(* Spec: one session.  A button press reruns the script; the handler is    *)
(* followed through its phases.                                            *)
(***************************************************************************)
Init ==
    /\ pc = "Idle"
    /\ selected_option_str = NoneVal
    /\ uploaded_files = <<>>
    /\ additional_context = ""
    /\ installed \in BOOLEAN
    /\ report_output = ""
    /\ prior_output = ""
    /\ LocalsInit
    /\ TablesInit

\* what a script run without a button press leaves alone: it only renders
RerunWithoutPress ==
    UNCHANGED <<pc, installed, context_data, files_ok, messages, dispatched, prompt,
                generated_report, report_output, prior_output, gen_calls, api_calls,
                in_flight, cause, tables>>

\* the user picks an entry of the selectbox (or none yet)
SelectTopic(opt) ==
    /\ pc = "Idle"
    /\ selected_option_str' = opt
    /\ UNCHANGED <<uploaded_files, additional_context>>
    /\ RerunWithoutPress

\* the user adds a file to the uploader
UploadFile(file) ==
    /\ pc = "Idle"
    /\ Len(uploaded_files) < MaxFiles
    /\ uploaded_files' = Append(uploaded_files, file)
    /\ UNCHANGED <<selected_option_str, additional_context>>
    /\ RerunWithoutPress

\* the user removes the files from the uploader
RemoveFiles ==
    /\ pc = "Idle"
    /\ uploaded_files # <<>>
    /\ uploaded_files' = <<>>
    /\ UNCHANGED <<selected_option_str, additional_context>>
    /\ RerunWithoutPress

\* the user edits the notes
EditNotes(notes) ==
    /\ pc = "Idle"
    /\ additional_context' = notes
    /\ UNCHANGED <<selected_option_str, uploaded_files>>
    /\ RerunWithoutPress

\* the user presses the button: generate_button is True in this script run
Press ==
    /\ pc = "Idle"
    /\ pc' = "Validating"
    /\ prior_output' = report_output
    /\ LocalsCleared
    /\ UNCHANGED <<widgets, installed, report_output, tables>>

\* a plausible slip: the handler does not test for empty input itself
ValidateTopicOnly ==
    /\ pc = "Validating"
    /\ IF ~Truthy(selected_option_str)
       THEN /\ messages' = Append(messages, Msg("error", "select a SAR topic", NoName))
            /\ pc' = "Failed"
            /\ cause' = "no_topic"
       ELSE /\ pc' = "Extracting"
            /\ UNCHANGED <<messages, cause>>
    /\ UNCHANGED <<widgets, installed, context_data, files_ok, dispatched, prompt,
                   generated_report, report_output, prior_output, gen_calls,
                   api_calls, in_flight, tables>>

\* if not selected_option_str ... elif not uploaded_files and not additional_context ...
Validate ==
    /\ pc = "Validating"
    /\ IF ~Truthy(selected_option_str)
       THEN /\ messages' = Append(messages, Msg("error", "select a SAR topic", NoName))
            /\ pc' = "Failed"
            /\ cause' = "no_topic"
       ELSE IF uploaded_files = <<>> /\ ~Truthy(additional_context)
       THEN /\ messages' = Append(messages,
                                  Msg("error", "upload a file or add notes", NoName))
            /\ pc' = "Failed"
            /\ cause' = "empty_input"
       ELSE /\ pc' = "Extracting"
            /\ UNCHANGED <<messages, cause>>
    /\ UNCHANGED <<widgets, installed, context_data, files_ok, dispatched, prompt,
                   generated_report, report_output, prior_output, gen_calls,
                   api_calls, in_flight, tables>>

\* context_data, files_ok = get_all_input_text(...); if files_ok ... else st.error
Extract ==
    /\ pc = "Extracting"
    /\ LET r == get_all_input_text(uploaded_files, additional_context, installed)
       IN  /\ context_data' = r.text
           /\ files_ok' = r.ok
           /\ dispatched' = r.disp
           /\ IF r.ok
              THEN /\ messages' = messages \o r.msgs
                   /\ pc' = "Prompting"
                   /\ cause' = cause
              ELSE /\ messages' = (messages \o r.msgs) \o
                                  <<Msg("error", "could not read the uploaded files", NoName)>>
                   /\ pc' = "Failed"
                   /\ cause' = "files_not_ok"
    /\ UNCHANGED <<widgets, installed, prompt, generated_report, report_output,
                   prior_output, gen_calls, api_calls, in_flight, tables>>

\* generate_sar_section is entered: the client and the prompt are built and the
\* generate_content request is sent
StartGeneration ==
    /\ pc = "Prompting"
    /\ gen_calls' = gen_calls + 1
    /\ prompt' = BuildPrompt(selected_option_str, context_data)
    /\ api_calls' = api_calls + 1
    /\ in_flight' = in_flight + 1
    /\ pc' = "Generating"
    /\ UNCHANGED <<widgets, installed, context_data, files_ok, messages, dispatched,
                   generated_report, report_output, prior_output, cause, tables>>

\* generate_sar_section is entered and genai.Client(...) raises: the except branch
\* returns None without a request, and the handler clears the result
ClientError ==
    /\ pc = "Prompting"
    /\ gen_calls' = gen_calls + 1
    /\ generated_report' = NoneVal
    /\ report_output' = ""
    /\ messages' = (messages \o ApiErrors) \o
                   <<Msg("error", "could not generate the report", NoName)>>
    /\ pc' = "Failed"
    /\ cause' = "generation_failed"
    /\ UNCHANGED <<widgets, installed, context_data, files_ok, dispatched, prompt,
                   prior_output, api_calls, in_flight, tables>>

\* a plausible slip: a failed call leaves the previous report in place
GenerateReturnKeepsPrior(resp) ==
    /\ pc = "Generating"
    /\ in_flight' = in_flight - 1
    /\ generated_report' = ReturnOf(resp)
    /\ IF Truthy(ReturnOf(resp))
       THEN /\ report_output' = ReturnOf(resp)
            /\ messages' = messages
            /\ pc' = "Success"
            /\ cause' = cause
       ELSE /\ report_output' = report_output
            /\ messages' = (messages \o (IF resp.raised THEN ApiErrors ELSE <<>>)) \o
                           <<Msg("error", "could not generate the report", NoName)>>
            /\ pc' = "Failed"
            /\ cause' = "generation_failed"
    /\ UNCHANGED <<widgets, installed, context_data, files_ok, dispatched, prompt,
                   prior_output, gen_calls, api_calls, tables>>

\* a plausible slip: a failed call is sent once more
GenerateReturnRetries(resp) ==
    /\ pc = "Generating"
    /\ generated_report' = ReturnOf(resp)
    /\ IF Truthy(ReturnOf(resp))
       THEN /\ report_output' = ReturnOf(resp)
            /\ pc' = "Success"
            /\ UNCHANGED <<messages, cause, api_calls>>
            /\ in_flight' = in_flight - 1
       ELSE IF api_calls < 2
       THEN /\ api_calls' = api_calls + 1
            /\ pc' = "Generating"
            /\ UNCHANGED <<messages, cause, report_output, in_flight>>
       ELSE /\ report_output' = ""
            /\ messages' = (messages \o (IF resp.raised THEN ApiErrors ELSE <<>>)) \o
                           <<Msg("error", "could not generate the report", NoName)>>
            /\ pc' = "Failed"
            /\ cause' = "generation_failed"
            /\ in_flight' = in_flight - 1
            /\ UNCHANGED api_calls
    /\ UNCHANGED <<widgets, installed, context_data, files_ok, dispatched, prompt,
                   prior_output, gen_calls, tables>>

\* generate_content answers; generate_sar_section returns and the handler stores
\* the report or clears it
GenerateReturn(resp) ==
    /\ pc = "Generating"
    /\ in_flight' = in_flight - 1
    /\ generated_report' = ReturnOf(resp)
    /\ IF Truthy(ReturnOf(resp))
       THEN /\ report_output' = ReturnOf(resp)
            /\ messages' = messages
            /\ pc' = "Success"
            /\ cause' = cause
       ELSE /\ report_output' = ""
            /\ messages' = (messages \o (IF resp.raised THEN ApiErrors ELSE <<>>)) \o
                           <<Msg("error", "could not generate the report", NoName)>>
            /\ pc' = "Failed"
            /\ cause' = "generation_failed"
    /\ UNCHANGED <<widgets, installed, context_data, files_ok, dispatched, prompt,
                   prior_output, gen_calls, api_calls, tables>>

\* the script run ends after rendering report_output; its locals are gone
Finish ==
    /\ pc \in {"Success", "Failed"}
    /\ pc' = "Idle"
    /\ LocalsCleared
    /\ prior_output' = ""
    /\ UNCHANGED <<widgets, installed, report_output, tables>>

Next ==
    \/ \E opt \in Topics \cup {NoneVal} : SelectTopic(opt)
    \/ \E file \in Uploadable : UploadFile(file)
    \/ RemoveFiles
    \/ \E notes \in Notes : EditNotes(notes)
    \/ Press
    \/ Validate
    \/ Extract
    \/ StartGeneration
    \/ ClientError
    \/ \E resp \in Responses : GenerateReturn(resp)
    \/ Finish

Spec == Init /\ [][Next]_vars

(***************************************************************************)
(* SpecAgg: get_all_input_text applied to every batch of Batches           *)
(***************************************************************************)
InitAgg ==
    /\ pc = "AggCall"
    /\ selected_option_str = NoneVal
    /\ uploaded_files \in Batches
    /\ additional_context \in Notes
    /\ installed \in BOOLEAN
    /\ report_output = ""
    /\ prior_output = ""
    /\ LocalsInit
    /\ TablesInit

Aggregate ==
    /\ pc = "AggCall"
    /\ LET r == get_all_input_text(uploaded_files, additional_context, installed)
       IN  /\ context_data' = r.text
           /\ files_ok' = r.ok
           /\ messages' = r.msgs
           /\ dispatched' = r.disp
    /\ pc' = "AggReturned"
    /\ UNCHANGED <<widgets, installed, prompt, generated_report, report_output,
                   prior_output, gen_calls, api_calls, in_flight, cause, tables>>

NextAgg == Aggregate

SpecAgg == InitAgg /\ [][NextAgg]_vars

(***************************************************************************)
(* SpecLimit: _limit_df and extract_text_from_csv applied to tables        *)
(***************************************************************************)
InitLimit ==
    /\ pc = "LimitCall"
    /\ selected_option_str = NoneVal
    /\ uploaded_files = <<>>
    /\ additional_context = ""
    /\ installed = TRUE
    /\ report_output = ""
    /\ prior_output = ""
    /\ LocalsInit
    /\ \E r \in RowCounts, c \in ColCounts : df = MkDf(r, c)
    /\ limited = MkDf(0, 0)
    /\ csv_out = <<>>

CallLimitDf ==
    /\ pc = "LimitCall"
    /\ limited' = limit_df(df, MAX_ROWS, MAX_COLS)
    /\ pc' = "LimitReturned"
    /\ UNCHANGED <<widgets, installed, context_data, files_ok, messages, dispatched,
                   prompt, generated_report, report_output, prior_output, gen_calls,
                   api_calls, in_flight, cause, df, csv_out>>

CallExtractCsv ==
    /\ pc = "LimitCall"
    /\ csv_out' = extract_csv_lines(CsvFileOf(df))
    /\ pc' = "CsvReturned"
    /\ UNCHANGED <<widgets, installed, context_data, files_ok, messages, dispatched,
                   prompt, generated_report, report_output, prior_output, gen_calls,
                   api_calls, in_flight, cause, df, limited>>

NextLimit == CallLimitDf \/ CallExtractCsv

SpecLimit == InitLimit /\ [][NextLimit]_vars

(***************************************************************************)
(* Helpers for the properties                                              *)
(***************************************************************************)
\* the indices of the tokens of text that carry tag, in order
RECURSIVE IndicesOf(_, _, _)
IndicesOf(text, tag, k) ==
    IF k > Len(text) THEN <<>>
    ELSE (IF text[k].tag = tag THEN <<k>> ELSE <<>>) \o IndicesOf(text, tag, k + 1)

StartIdx == IndicesOf(context_data, "START OF FILE", 1)

EndIdx == IndicesOf(context_data, "END OF FILE", 1)

NFiles == Len(uploaded_files)

\* the tokens between the i-th START marker and the i-th END marker
Inner(i) == SubSeq(context_data, StartIdx[i] + 1, EndIdx[i] - 1)

\* the per-file blocks are there, one per artifact, in upload order, each
\* opened and closed by markers naming its artifact
BlocksInUploadOrder ==
    /\ Len(StartIdx) = NFiles
    /\ Len(EndIdx) = NFiles
    /\ \A i \in 1..NFiles :
          /\ StartIdx[i] < EndIdx[i]
          /\ context_data[StartIdx[i]].name = uploaded_files[i].name
          /\ context_data[EndIdx[i]].name = uploaded_files[i].name
          /\ (i < NFiles => EndIdx[i] < StartIdx[i + 1])

\* the extractor picked for the i-th artifact raised
Unreadable(i) ==
    \E k \in 1..Len(RunExtractor(uploaded_files[i], installed).msgs) :
        RunExtractor(uploaded_files[i], installed).msgs[k].level = "error"

\* the extractor picked for the i-th artifact returned text
Readable(i) ==
    /\ uploaded_files[i].data.text # ""
    /\ RunExtractor(uploaded_files[i], installed).msgs = <<>>
    /\ ExtractorOf(uploaded_files[i]) # "unsupported"

MixedBatch ==
    /\ \E i \in 1..NFiles : Unreadable(i)
    /\ \E i \in 1..NFiles : Readable(i)

NoNotes == ~Truthy(additional_context)

TopicSelected == Truthy(selected_option_str)

EmptyInput == uploaded_files = <<>> /\ NoNotes

GenerationFailed == gen_calls = 1 /\ ~Truthy(generated_report)

RequestOver == pc \in {"Success", "Failed"}

(***************************************************************************)
(* C1: a button press with a topic selected but no artifacts and no notes  *)
(* is rejected with the validation message, and during that request        *)
(* generate_sar_section is never invoked and no request is sent.           *)
(***************************************************************************)
C1_EmptyRequestRejected ==
    (TopicSelected /\ EmptyInput /\ pc \notin {"Idle", "Validating"}) =>
        /\ pc = "Failed"
        /\ messages = <<Msg("error", "upload a file or add notes", NoName)>>
        /\ gen_calls = 0
        /\ api_calls = 0
        /\ in_flight = 0

C1_Witness ==
    TopicSelected /\ EmptyInput /\ pc = "Failed" /\ cause = "empty_input"

(***************************************************************************)
(* C2: get_all_input_text returns ok = false exactly when the artifact     *)
(* list and the notes are both empty; a batch whose artifacts all fail or  *)
(* are unsupported still returns ok = true.                                *)
(***************************************************************************)
C2_OkIffNotEmpty ==
    pc = "AggReturned" => (files_ok = FALSE <=> EmptyInput)

C2_Witness ==
    /\ pc = "AggReturned"
    /\ files_ok
    /\ NFiles = MaxFiles
    /\ NoNotes
    /\ \A i \in 1..NFiles : Inner(i) = <<>>
    /\ \E i \in 1..NFiles : Unreadable(i)
    /\ \E i \in 1..NFiles : dispatched[i] = "unsupported"

(***************************************************************************)
(* C3: a request whose artifacts are all unsupported or yield no text, and *)
(* which has no notes, is rejected before generate_sar_section is invoked. *)
(***************************************************************************)
C3_NoUsableInputRejected ==
    (/\ TopicSelected
     /\ NoNotes
     /\ \A i \in 1..NFiles : RunExtractor(uploaded_files[i], installed).text = <<>>)
    => (gen_calls = 0 /\ api_calls = 0)

(***************************************************************************)
(* C4 as stated: for a batch with an unreadable and a readable file,       *)
(* get_all_input_text succeeds, the blocks come in upload order, the       *)
(* readable file's block holds its text, and the unreadable file's block   *)
(* of the returned text holds an error notice.                             *)
(***************************************************************************)
C4_ErrorNoticeInText ==
    (pc = "AggReturned" /\ MixedBatch) =>
        /\ files_ok
        /\ BlocksInUploadOrder
        /\ \A i \in 1..NFiles :
              /\ Readable(i) => Inner(i) = TextOf(uploaded_files[i])
              /\ Unreadable(i) => Inner(i) # <<>>

(***************************************************************************)
(* C4 amended: for such a batch get_all_input_text succeeds, the blocks    *)
(* come in upload order, the readable file's block holds its text, the     *)
(* unreadable file's block is empty, and its error notice is emitted with  *)
(* st.error (naming the file, or reporting the missing Excel library).     *)
(***************************************************************************)
C4_ErrorNoticeInMessages ==
    (pc = "AggReturned" /\ MixedBatch) =>
        /\ files_ok
        /\ BlocksInUploadOrder
        /\ \A i \in 1..NFiles :
              /\ Readable(i) => Inner(i) = TextOf(uploaded_files[i])
              /\ Unreadable(i) =>
                    /\ Inner(i) = <<>>
                    /\ \E k \in 1..Len(messages) :
                          /\ messages[k].level = "error"
                          /\ \/ messages[k].name = uploaded_files[i].name
                             \/ messages[k].key = "missing Excel library"

C4_Witness ==
    /\ pc = "AggReturned"
    /\ NFiles = 2
    /\ Unreadable(1)
    /\ Readable(2)
    /\ Inner(1) = <<>>
    /\ Inner(2) # <<>>
    /\ Len(messages) = 1

(***************************************************************************)
(* C5: once generate_sar_section has returned, report_output equals the    *)
(* returned text if there is one and is empty otherwise; the report of an  *)
(* earlier request does not survive a failed call.                         *)
(***************************************************************************)
C5_ResultFollowsCall ==
    (RequestOver /\ gen_calls > 0) =>
        /\ Truthy(generated_report) => (report_output = generated_report /\ pc = "Success")
        /\ ~Truthy(generated_report) => (report_output = "" /\ pc = "Failed")

C5_Witness ==
    /\ pc = "Failed"
    /\ gen_calls = 1
    /\ api_calls = 1
    /\ Truthy(prior_output)
    /\ report_output = ""

(***************************************************************************)
(* C6: the extractor follows the suffix whenever the (lower-cased) name    *)
(* ends in a recognised suffix, whatever the media type; an artifact       *)
(* matching neither suffix nor media type is skipped with a warning.       *)
(***************************************************************************)
SuffixExtractor(ext) ==
    CASE ext = ".pdf" -> "pdf"
      [] ext = ".docx" -> "docx"
      [] ext \in {".xlsx", ".xlsm", ".xls"} -> "excel"
      [] ext = ".csv" -> "csv"
      [] ext = ".pptx" -> "pptx"
      [] OTHER -> "unsupported"

C6_SuffixDecides ==
    pc = "AggReturned" =>
        \A i \in 1..NFiles :
            LET ext == Lower(uploaded_files[i].name.ext)
            IN  /\ SuffixExtractor(ext) # "unsupported" =>
                      dispatched[i] = SuffixExtractor(ext)
                /\ dispatched[i] = "unsupported" =>
                      \E k \in 1..Len(messages) :
                          messages[k] = Msg("warning", "Unsupported file type",
                                            uploaded_files[i].name)

(***************************************************************************)
(* C7: _limit_df returns the leading min(rows, MAX_ROWS) rows and the      *)
(* leading min(cols, MAX_COLS) columns of its input, in order, so never    *)
(* more than the caps; a CSV of ManyRows rows comes out with exactly       *)
(* MAX_ROWS data lines after its header.                                   *)
(***************************************************************************)
C7_LeadingRowsAndCols ==
    /\ pc = "LimitReturned" =>
          /\ Len(limited.rows) <= MAX_ROWS
          /\ Len(limited.cols) <= MAX_COLS
          /\ Len(limited.rows) = Min(Len(df.rows), MAX_ROWS)
          /\ Len(limited.cols) = Min(Len(df.cols), MAX_COLS)
          /\ \A i \in 1..Len(limited.rows) : limited.rows[i] = df.rows[i]
          /\ \A j \in 1..Len(limited.cols) : limited.cols[j] = df.cols[j]
    /\ (pc = "CsvReturned" /\ Len(df.cols) > 0) =>
          /\ Len(csv_out) = 1 + Min(Len(df.rows), MAX_ROWS)
          /\ csv_out[1].kind = "header"
          /\ \A i \in 2..Len(csv_out) :
                /\ csv_out[i].kind = "data"
                /\ csv_out[i].row = df.rows[i - 1]
                /\ Len(csv_out[i].cells) = Min(Len(df.cols), MAX_COLS)

C7_Witness ==
    /\ pc = "CsvReturned"
    /\ Len(df.rows) = ManyRows
    /\ Len(df.cols) = ManyCols
    /\ Len(csv_out) = MAX_ROWS + 1
    /\ Len(csv_out[2].cells) = MAX_COLS

(***************************************************************************)
(* C8: the returned text is one block per artifact in upload order (START  *)
(* marker naming it, its extracted text, END marker naming it), followed   *)
(* by the notes block exactly when the notes are not empty.                *)
(***************************************************************************)
RECURSIVE BlocksThrough(_)
BlocksThrough(k) ==
    IF k = 0 THEN <<>>
    ELSE BlocksThrough(k - 1)
         \o <<Tok("START OF FILE", uploaded_files[k].name, "")>>
         \o RunExtractor(uploaded_files[k], installed).text
         \o <<Tok("END OF FILE", uploaded_files[k].name, "")>>

C8_Layout ==
    pc = "AggReturned" =>
        /\ NoNotes => context_data = BlocksThrough(NFiles)
        /\ ~NoNotes =>
              context_data = BlocksThrough(NFiles) \o
                  <<Tok("START OF ADDITIONAL USER NOTES", NoName, ""),
                    Tok("TEXT", NoName, additional_context),
                    Tok("END OF ADDITIONAL USER NOTES", NoName, "")>>
        /\ (NFiles = 0 /\ ~NoNotes) => Len(context_data) = 3

C8_Witness ==
    /\ pc = "AggReturned"
    /\ NFiles = 2
    /\ uploaded_files[1].name # uploaded_files[2].name
    /\ Readable(1)
    /\ Readable(2)
    /\ ~NoNotes
    /\ Len(context_data) = 9

(***************************************************************************)
(* C9 as stated: a request ends in Failed only for an empty combined       *)
(* context (no artifacts and no notes) or a generation-call failure.       *)
(***************************************************************************)
C9_TwoCausesOfFailed ==
    pc = "Failed" => (EmptyInput \/ GenerationFailed)

(***************************************************************************)
(* C9 amended: the phases follow Idle (kept while the inputs are edited),  *)
(* Validating, Extracting, Prompting, Generating, Success or Failed, Idle, *)
(* leaving early for Failed only from Validating or from Prompting;        *)
(* Extracting always goes on to Prompting,                                 *)
(* whatever the extractors did; and a request ends in Failed only for a    *)
(* missing topic, an empty combined context or a generation-call failure.  *)
(***************************************************************************)
C9_Steps ==
    {<<"Idle", "Idle">>,
     <<"Idle", "Validating">>, <<"Validating", "Extracting">>, <<"Validating", "Failed">>,
     <<"Extracting", "Prompting">>, <<"Prompting", "Generating">>,
     <<"Prompting", "Failed">>, <<"Generating", "Success">>, <<"Generating", "Failed">>,
     <<"Success", "Idle">>, <<"Failed", "Idle">>}

C9_ThreeCausesOfFailed ==
    pc = "Failed" => (~TopicSelected \/ EmptyInput \/ GenerationFailed)

C9_Step == <<pc, pc'>> \in C9_Steps

C9_Pipeline ==
    /\ [](C9_ThreeCausesOfFailed)
    /\ [][C9_Step]_vars

C9_Witness ==
    /\ pc = "Prompting"
    /\ \E i \in 1..NFiles : Unreadable(i)
    /\ \A i \in 1..NFiles : Inner(i) = <<>>
    /\ NoNotes

====
